---------------------------- MODULE Spec2Model ----------------------------
(***************************************************************************)
(* A model of kernels/xeonphi/bvh4i/bvh4i.h: the 32-bit node reference     *)
(* encoding (BVH4i::NodeRef), the uncompressed 4-wide node (BVH4i::Node),  *)
(* the byte-quantized node (BVH4i::QuantizedNode) and the triangle leaf    *)
(* packing (initTriangle1).                                                *)
(*                                                                         *)
(* Representation.                                                         *)
(*  - An unsigned int is a pair <<hi, lo>> of 16-bit limbs, so that every  *)
(*    32-bit value (0xFFFFFFFF included) and the wrap of unsigned          *)
(*    arithmetic are representable.                                        *)
(*  - A float is a record: k = "fin" with an exact rational n/d, "pinf",   *)
(*    "ninf", "nan", or "raw" for a lane that holds the bits of something  *)
(*    that is no float (a NodeRef, an int id).  Arithmetic follows IEEE    *)
(*    for the infinities and NaN; finite results are exact rationals, so   *)
(*    binary32 rounding error is NOT modelled.                             *)
(*  - A mic_f / mic_i is a function from the 16 lanes to such values; a    *)
(*    mic_m is a number 0..65535 whose bit l is lane l.                    *)
(***************************************************************************)
EXTENDS Integers, Sequences, FiniteSets, TLC

VARIABLES
    ref,      \* BVH4i::root: the NodeRef (its _id) under test
    node,     \* a BVH4i::Node: [lower |-> [0..3 -> slot], upper |-> [0..3 -> slot]]
    nops,     \* number of Node operations applied so far
    qnode,    \* a BVH4i::QuantizedNode as its 16 32-bit words
    triArgs,  \* the arguments of initTriangle1
    triOut    \* the value returned by initTriangle1

vars == <<ref, node, nops, qnode, triArgs, triOut>>

-----------------------------------------------------------------------------
(* unsigned int: 32 bits as two 16-bit limbs                               *)

Limb == 2 ^ 16

\* the unsigned int with value n, for 0 <= n < 2^31
U32(n) == <<n \div Limb, n % Limb>>

RECURSIVE BitAnd(_, _, _)
BitAnd(a, b, n) ==
    IF n = 0 THEN 0
    ELSE (a % 2) * (b % 2) + 2 * BitAnd(a \div 2, b \div 2, n - 1)

RECURSIVE BitOr(_, _, _)
BitOr(a, b, n) ==
    IF n = 0 THEN 0
    ELSE (IF (a % 2) + (b % 2) > 0 THEN 1 ELSE 0)
         + 2 * BitOr(a \div 2, b \div 2, n - 1)

\* a & b
And32(a, b) == <<BitAnd(a[1], b[1], 16), BitAnd(a[2], b[2], 16)>>

\* a | b
Or32(a, b) == <<BitOr(a[1], b[1], 16), BitOr(a[2], b[2], 16)>>

\* a * k in unsigned int arithmetic (modulo 2^32), 1 <= k <= 2^15
Mul32(a, k) ==
    LET plo == a[2] * k
    IN  <<(a[1] * k + plo \div Limb) % Limb, plo % Limb>>

\* a / k in unsigned arithmetic, 1 <= k <= 2^15
Div32(a, k) ==
    LET r == a[1] % k
    IN  <<a[1] \div k, (r * Limb + a[2]) \div k>>

\* a << n, 0 <= n <= 15
Shl32(a, n) == Mul32(a, 2 ^ n)

\* a >> n, 0 <= n <= 15
Shr32(a, n) == Div32(a, 2 ^ n)

\* a - b in unsigned int arithmetic (modulo 2^32)
Sub32(a, b) ==
    LET borrow == IF a[2] < b[2] THEN 1 ELSE 0
    IN  <<(a[1] - b[1] - borrow + 2 * Limb) % Limb, (a[2] - b[2] + Limb) % Limb>>

-----------------------------------------------------------------------------
(* BVH4i constants                                                         *)

N == 4

encodingBits == 4

offset_mask == Shl32(<<65535, 65535>>, encodingBits)

leaf_shift == 3

leaf_mask == Shl32(U32(1), leaf_shift)

items_mask == Sub32(leaf_mask, U32(1))

emptyNode_itemsMask == items_mask

emptyNode == leaf_mask

invalidNode == Sub32(U32(0), U32(1))

sizeof_Node_lowerOnly == N * (3 * 4 + 4)

\* lower[4], upper[4] of {float x,y,z; NodeRef child}
sizeof_Node == 2 * N * (3 * 4 + 4)

-----------------------------------------------------------------------------
(* BVH4i::NodeRef                                                          *)

isLeaf_itemsMask(id) == And32(id, items_mask)

isLeaf(id) == And32(id, leaf_mask)

isNode(id) == And32(id, leaf_mask) = U32(0)

nodeID(id) == Div32(Mul32(id, 2), sizeof_Node)

offset(id) == And32(id, offset_mask)

offsetIndex_leafShift(id) == Shr32(id, leaf_shift)

offsetIndex(id) == Shr32(id, encodingBits)

items(id) == And32(id, items_mask)

-----------------------------------------------------------------------------
(* float values                                                            *)

RECURSIVE Gcd(_, _)
Gcd(a, b) == IF b = 0 THEN a ELSE Gcd(b, a % b)

Abs(n) == IF n < 0 THEN -n ELSE n

\* the finite value n/d, d # 0, in lowest terms with a positive denominator
Fin(n, d) ==
    LET g == Gcd(Abs(n), Abs(d))
        s == IF d < 0 THEN -1 ELSE 1
    IN  [k |-> "fin", n |-> (s * n) \div g, d |-> (s * d) \div g]

F(n) == Fin(n, 1)

pos_inf == [k |-> "pinf", n |-> 0, d |-> 1]

neg_inf == [k |-> "ninf", n |-> 0, d |-> 1]

NaN == [k |-> "nan", n |-> 0, d |-> 1]

\* the result of arithmetic on a lane that holds no float
Junk == [k |-> "junk", n |-> 0, d |-> 1]

\* a lane or word holding the 32 bits w of an integer (a NodeRef, an int id)
Raw(w) == [k |-> "raw", n |-> w[1], d |-> w[2]]

\* the 32 bits of a word read as an unsigned int; the bits of a non-zero
\* float are not modelled and read as a pattern no reference of the model has
Bits(f) ==
    IF f.k = "raw" THEN <<f.n, f.d>>
    ELSE IF f.k = "fin" /\ f.n = 0 THEN U32(0)
    ELSE <<32767, 65535>>

IsNum(f) == f.k \in {"fin", "pinf", "ninf", "nan"}

\* -1, 0, 1 for a value that is not NaN
Sign(f) ==
    CASE f.k = "pinf" -> 1
      [] f.k = "ninf" -> -1
      [] OTHER -> IF f.n > 0 THEN 1 ELSE IF f.n < 0 THEN -1 ELSE 0

Inf(s) == IF s < 0 THEN neg_inf ELSE pos_inf

FNeg(a) ==
    CASE a.k = "fin" -> Fin(-a.n, a.d)
      [] a.k = "pinf" -> neg_inf
      [] a.k = "ninf" -> pos_inf
      [] OTHER -> a

FAdd(a, b) ==
    IF ~IsNum(a) \/ ~IsNum(b) THEN Junk
    ELSE IF a.k = "nan" \/ b.k = "nan" THEN NaN
    ELSE IF a.k = "fin" /\ b.k = "fin" THEN Fin(a.n * b.d + b.n * a.d, a.d * b.d)
    ELSE IF a.k = "fin" THEN b
    ELSE IF b.k = "fin" THEN a
    ELSE IF a.k = b.k THEN a
    ELSE NaN

FSub(a, b) == FAdd(a, FNeg(b))

FMul(a, b) ==
    IF ~IsNum(a) \/ ~IsNum(b) THEN Junk
    ELSE IF a.k = "nan" \/ b.k = "nan" THEN NaN
    ELSE IF a.k = "fin" /\ b.k = "fin" THEN Fin(a.n * b.n, a.d * b.d)
    ELSE IF Sign(a) = 0 \/ Sign(b) = 0 THEN NaN
    ELSE Inf(Sign(a) * Sign(b))

\* a zero divisor is +0: the only zero divisors of the model are differences
\* x - x, which are +0 under round-to-nearest
FDiv(a, b) ==
    IF ~IsNum(a) \/ ~IsNum(b) THEN Junk
    ELSE IF a.k = "nan" \/ b.k = "nan" THEN NaN
    ELSE IF a.k # "fin" /\ b.k # "fin" THEN NaN
    ELSE IF b.k # "fin" THEN F(0)
    ELSE IF a.k # "fin" THEN Inf(Sign(a) * (IF Sign(b) < 0 THEN -1 ELSE 1))
    ELSE IF b.n = 0 THEN (IF a.n = 0 THEN NaN ELSE Inf(Sign(a)))
    ELSE Fin(a.n * b.d, a.d * b.n)

\* a < b, false when either is NaN
FLt(a, b) ==
    /\ IsNum(a) /\ IsNum(b)
    /\ a.k # "nan" /\ b.k # "nan"
    /\ CASE a.k = "pinf" -> FALSE
         [] a.k = "ninf" -> b.k # "ninf"
         [] b.k = "pinf" -> TRUE
         [] b.k = "ninf" -> FALSE
         [] OTHER -> a.n * b.d < b.n * a.d

\* a == b on floats, false when either is NaN
FEq(a, b) ==
    /\ IsNum(a) /\ IsNum(b)
    /\ a.k # "nan" /\ b.k # "nan"
    /\ a = b

FLe(a, b) == FLt(a, b) \/ FEq(a, b)

FGt(a, b) == FLt(b, a)

FMin(a, b) ==
    IF ~IsNum(a) \/ ~IsNum(b) THEN Junk
    ELSE IF a.k = "nan" \/ b.k = "nan" THEN NaN
    ELSE IF FLt(b, a) THEN b ELSE a

FMax(a, b) ==
    IF ~IsNum(a) \/ ~IsNum(b) THEN Junk
    ELSE IF a.k = "nan" \/ b.k = "nan" THEN NaN
    ELSE IF FLt(a, b) THEN b ELSE a

-----------------------------------------------------------------------------
(* 16-lane vectors (mic_f) and lane masks (mic_m)                          *)

Lanes == 0 .. 15

\* whether lane l is set in the mask m
MaskBit(m, l) == (m \div (2 ^ l)) % 2 = 1

RECURSIVE MaskOf(_)
\* the mask whose set lanes are S
MaskOf(S) ==
    IF S = {} THEN 0
    ELSE LET l == CHOOSE x \in S : TRUE IN 2 ^ l + MaskOf(S \ {l})

\* m1 ^ m2 on masks
MaskXor(m1, m2) == MaskOf({l \in Lanes : MaskBit(m1, l) # MaskBit(m2, l)})

\* 0x7777: the x,y,z lanes of the four groups
M7777 == 7 * 4096 + 7 * 256 + 7 * 16 + 7

\* 0x8888: the 4th lane of the four groups
M8888 == 8 * 4096 + 8 * 256 + 8 * 16 + 8

\* select(m, t, f): lane l of t where m is set, of f elsewhere
select(m, t, f) == [l \in Lanes |-> IF MaskBit(m, l) THEN t[l] ELSE f[l]]

\* eq(m, a, b): the lanes of m where a == b
eq(m, a, b) == MaskOf({l \in Lanes : MaskBit(m, l) /\ FEq(a[l], b[l])})

Splat(x) == [l \in Lanes |-> x]

VAdd(a, b) == [l \in Lanes |-> FAdd(a[l], b[l])]

VSub(a, b) == [l \in Lanes |-> FSub(a[l], b[l])]

VMul(a, b) == [l \in Lanes |-> FMul(a[l], b[l])]

VDiv(a, b) == [l \in Lanes |-> FDiv(a[l], b[l])]

VMin(a, b) == [l \in Lanes |-> FMin(a[l], b[l])]

VMax(a, b) == [l \in Lanes |-> FMax(a[l], b[l])]

-----------------------------------------------------------------------------
(* BVH4i::Node                                                             *)

Slots == 0 .. N - 1

\* the four 32-bit words of a NodeStruct, as floats: x, y, z and the bits
\* of child
SlotWords(s) == <<s.x, s.y, s.z, Raw(s.child)>>

\* load16f(a): the 16 words of lower[4] or upper[4]
load16f(a) == [l \in Lanes |-> SlotWords(a[l \div 4])[(l % 4) + 1]]

\* broadcast4to16f(&a[i]): the 4 words of slot i in each group
broadcast4to16f(s) == [l \in Lanes |-> SlotWords(s)[(l % 4) + 1]]

Node_lowerXYZ(n, i) == broadcast4to16f(n.lower[i])

Node_upperXYZ(n, i) == broadcast4to16f(n.upper[i])

\* Vec3fa read at &lower[i], &upper[i]: 16 bytes, the 4th the bits of child
Node_bounds_swapped(n, i) ==
    [lower |-> SlotWords(n.upper[i]), upper |-> SlotWords(n.lower[i])]

Node_bounds(n, i) ==
    [lower |-> SlotWords(n.lower[i]), upper |-> SlotWords(n.upper[i])]

Node_setBounds(n, i, b) ==
    [lower |-> [n.lower EXCEPT ![i] = [@ EXCEPT !.x = b.lower[1],
                                                !.y = b.lower[2],
                                                !.z = b.lower[3]]],
     upper |-> [n.upper EXCEPT ![i] = [@ EXCEPT !.x = b.upper[1],
                                                !.y = b.upper[2],
                                                !.z = b.upper[3]]]]

Node_setInvalid_upperEmpty(n, i) ==
    [lower |-> [n.lower EXCEPT ![i] =
                   [x |-> pos_inf, y |-> pos_inf, z |-> pos_inf,
                    child |-> invalidNode]],
     upper |-> [n.upper EXCEPT ![i] =
                   [x |-> neg_inf, y |-> neg_inf, z |-> neg_inf,
                    child |-> emptyNode]]]

Node_setInvalid(n, i) ==
    [lower |-> [n.lower EXCEPT ![i] =
                   [x |-> pos_inf, y |-> pos_inf, z |-> pos_inf,
                    child |-> invalidNode]],
     upper |-> [n.upper EXCEPT ![i] =
                   [x |-> neg_inf, y |-> neg_inf, z |-> neg_inf,
                    child |-> U32(0)]]]

\* child(i): a reference to lower[i].child
Node_child(n, i) == n.lower[i].child

\* child(i) = r
Node_child_assign(n, i, r) ==
    [n EXCEPT !.lower[i].child = r]

\* A Node has no constructor: its 128 bytes are whatever the storage held.
\* Two fills stand for that: all bits zero, all bits one (a NaN as a float).
FillSlot(g) ==
    IF g = 0 THEN [x |-> F(0), y |-> F(0), z |-> F(0), child |-> U32(0)]
    ELSE [x |-> NaN, y |-> NaN, z |-> NaN, child |-> <<65535, 65535>>]

FillNode(g) == [lower |-> [i \in Slots |-> FillSlot(g)],
                upper |-> [i \in Slots |-> FillSlot(g)]]

-----------------------------------------------------------------------------
(* BVH4i::QuantizedNode: 16 32-bit words                                   *)

QWords == 0 .. 15

\* word offsets of the fields, in declaration order:
\* Vec3f start; NodeRef child0; Vec3f diff; NodeRef child1;
\* unsigned char lower[12]; NodeRef child2; unsigned char upper[12];
\* NodeRef child3
off_start == 0

off_child0 == off_start + 3

off_diff == off_child0 + 1

off_child1 == off_diff + 3

off_lower == off_child1 + 1

off_child2 == off_lower + 3

off_upper == off_child2 + 1

off_child3 == off_upper + 3

\* a word holding 4 unsigned chars
U8x4(b) == [k |-> "u8x4", n |-> b, d |-> 1]

\* a word never written
UndefWord == [k |-> "undef", n |-> 0, d |-> 1]

\* byte j of the unsigned char array at word offset off
ByteAt(q, off, j) ==
    LET w == q[off + (j \div 4)]
    IN  IF w.k = "u8x4" THEN w.n[(j % 4) + 1] ELSE 0

\* store4f(addr, v): the low 4 lanes of v to the 4 words at addr
store4f(q, off, v) ==
    [w \in QWords |-> IF w \in off .. off + 3 THEN v[w - off] ELSE q[w]]

\* float to unsigned 8-bit: truncated, clamped to 0..255; nanByte is the
\* byte a NaN converts to
F2U8(f, nanByte) ==
    CASE f.k = "fin" -> IF f.n < 0 THEN 0
                        ELSE IF f.n \div f.d > 255 THEN 255
                        ELSE f.n \div f.d
      [] f.k = "pinf" -> 255
      [] f.k = "ninf" -> 0
      [] OTHER -> nanByte

\* the number of lanes of m below lane l
LanesBelow(m, l) == Cardinality({x \in Lanes : x < l /\ MaskBit(m, x)})

\* the lane of the j-th (from 0) set lane of m
NthLane(m, j) == CHOOSE l \in Lanes : MaskBit(m, l) /\ LanesBelow(m, l) = j

\* compactustore16f_low_uint8(m, addr, v): the lanes of v that m selects,
\* converted to unsigned 8-bit and stored contiguously at addr (12 bytes
\* for m = 0x7777)
compactustore16f_low_uint8(q, m, off, v, nanByte) ==
    LET cnt == Cardinality({l \in Lanes : MaskBit(m, l)})
        byte(j) == IF j < cnt THEN F2U8(v[NthLane(m, j)], nanByte)
                   ELSE ByteAt(q, off, j)
    IN  [w \in QWords |->
            IF w \in off .. off + ((cnt - 1) \div 4)
            THEN U8x4([b \in 1 .. 4 |-> byte(4 * (w - off) + b - 1)])
            ELSE q[w]]

\* uload16f_low_uint8(m, addr, z): consecutive bytes at addr, as floats, in
\* the lanes m selects; z elsewhere
uload16f_low_uint8(q, m, off, z) ==
    [l \in Lanes |-> IF MaskBit(m, l) THEN F(ByteAt(q, off, LanesBelow(m, l)))
                     ELSE z[l]]

\* child(i): ((NodeRef*)this)[3+4*i]
QuantizedNode_child_word2(q, i) == Bits(q[2 + 4 * i])

QuantizedNode_child(q, i) == Bits(q[3 + 4 * i])

QuantizedNode_lowerXYZ(q) == uload16f_low_uint8(q, M7777, off_lower, Splat(F(0)))

QuantizedNode_upperXYZ(q) == uload16f_low_uint8(q, M7777, off_upper, Splat(F(0)))

\* broadcast4to16f(&start), broadcast4to16f(&diff): 4 words in each group
decompress_startXYZ(q) == [l \in Lanes |-> q[off_start + (l % 4)]]

decompress_diffXYZ(q) == [l \in Lanes |-> q[off_diff + (l % 4)]]

decompress_lowerXYZ(q, s, d) == VAdd(s, VMul(d, QuantizedNode_lowerXYZ(q)))

decompress_upperXYZ(q, s, d) == VAdd(s, VMul(d, QuantizedNode_upperXYZ(q)))

QuantizedNode_bounds(q, i) ==
    LET s == decompress_startXYZ(q)
        d == decompress_diffXYZ(q)
        lo == decompress_lowerXYZ(q, s, d)
        up == decompress_upperXYZ(q, s, d)
    IN  [lower |-> [c \in 1 .. 4 |-> lo[4 * i + c - 1]],
         upper |-> [c \in 1 .. 4 |-> up[4 * i + c - 1]]]

\* init, lines 267-279
init_minXYZ(n) ==
    select(M7777,
           VMin(VMin(Node_lowerXYZ(n, 0), Node_lowerXYZ(n, 1)),
                VMin(Node_lowerXYZ(n, 2), Node_lowerXYZ(n, 3))),
           Splat(F(0)))

init_maxXYZ_ofLower(n) ==
    select(M7777,
           VMax(VMax(Node_lowerXYZ(n, 0), Node_lowerXYZ(n, 1)),
                VMax(Node_lowerXYZ(n, 2), Node_lowerXYZ(n, 3))),
           Splat(F(1)))

init_maxXYZ(n) ==
    select(M7777,
           VMax(VMax(Node_upperXYZ(n, 0), Node_upperXYZ(n, 1)),
                VMax(Node_upperXYZ(n, 2), Node_upperXYZ(n, 3))),
           Splat(F(1)))

\* init, lines 298-301: the four references, by field
init_children(q, n) ==
    [w \in QWords |->
        CASE w = off_child0 -> Raw(Node_child(n, 0))
          [] w = off_child1 -> Raw(Node_child(n, 1))
          [] w = off_child2 -> Raw(Node_child(n, 2))
          [] w = off_child3 -> Raw(Node_child(n, 3))
          [] OTHER -> q[w]]

\* init(node), the release build (the DEBUG block only prints)
QuantizedNode_init(q, n, nanByte) ==
    LET minXYZ == init_minXYZ(n)
        maxXYZ == init_maxXYZ(n)
        diffXYZ == VSub(maxXYZ, minXYZ)
        rcp_diffXYZ == VDiv(Splat(F(255)), diffXYZ)
        nlower == load16f(n.lower)
        nupper == load16f(n.upper)
        isInvalid == eq(M7777, nlower, Splat(pos_inf))
        node_lowerXYZ == select(MaskXor(M7777, isInvalid), nlower, minXYZ)
        node_upperXYZ == select(MaskXor(M7777, isInvalid), nupper, minXYZ)
        local_lowerXYZ ==
            VSub(VMul(VSub(node_lowerXYZ, minXYZ), rcp_diffXYZ), Splat(Fin(1, 2)))
        local_upperXYZ ==
            VAdd(VMul(VSub(node_upperXYZ, minXYZ), rcp_diffXYZ), Splat(Fin(1, 2)))
        q1 == store4f(q, off_start, minXYZ)
        q2 == store4f(q1, off_diff, VMul(diffXYZ, Splat(FDiv(F(1), F(255)))))
        q3 == compactustore16f_low_uint8(q2, M7777, off_lower, local_lowerXYZ, nanByte)
        q4 == compactustore16f_low_uint8(q3, M7777, off_upper, local_upperXYZ, nanByte)
    IN  init_children(q4, n)

-----------------------------------------------------------------------------
(* initTriangle1                                                           *)

\* cast((__m512i)i): the bits of the 16 ints as 16 floats
cast(i) == [l \in Lanes |-> Raw(i[l])]

\* lcross_xyz(a, b): the cross product of the x,y,z lanes of each group
lcross_xyz(a, b) ==
    [l \in Lanes |->
        LET g == 4 * (l \div 4)
            ax == a[g]      ay == a[g + 1]      az == a[g + 2]
            bx == b[g]      by == b[g + 1]      bz == b[g + 2]
        IN  CASE l % 4 = 0 -> FSub(FMul(ay, bz), FMul(az, by))
              [] l % 4 = 1 -> FSub(FMul(az, bx), FMul(ax, bz))
              [] l % 4 = 2 -> FSub(FMul(ax, by), FMul(ay, bx))
              [] OTHER -> FSub(FMul(a[l], b[l]), FMul(a[l], b[l]))]

\* lane_shuffle_gather<g>(a, b, c, d): group g of a, b, c, d in this order
lane_shuffle_gather(g, a, b, c, d) ==
    [l \in Lanes |->
        CASE l \div 4 = 0 -> a[4 * g + (l % 4)]
          [] l \div 4 = 1 -> b[4 * g + (l % 4)]
          [] l \div 4 = 2 -> c[4 * g + (l % 4)]
          [] OTHER -> d[4 * g + (l % 4)]]

tri_normal(t) == lcross_xyz(VSub(t.v0, t.v1), VSub(t.v2, t.v0))

tri_v0(t) == select(M8888, cast(t.primID), t.v0)

tri_v1_primID(t) == select(M8888, cast(t.primID), t.v1)

tri_v1(t) == select(M8888, cast(t.geomID), t.v1)

tri_v2(t) == select(M8888, cast(t.mask), t.v2)

tri_v3(t) == select(M8888, Splat(F(0)), tri_normal(t))

initTriangle1(t) ==
    lane_shuffle_gather(0, tri_v0(t), tri_v1(t), tri_v2(t), tri_v3(t))

-----------------------------------------------------------------------------
(* bounds of the model                                                     *)

\* node reference offsets 0..MaxOffset from 0, from 2^27 and below 2^28
MaxOffset == 4

\* number of distinct boxes and internal references written into a Node
MaxBox == 2

\* number of Node operations in a run
MaxOps == 3

\* box corners of the quantized nodes lie on the grid -1..MaxCoord
MaxCoord == 3

\* triangle vertex coordinates lie on the grid 0..MaxV
MaxV == 1

-----------------------------------------------------------------------------
(* inputs                                                                  *)

\* the 28-bit offsets the references are built from
OffsetSamples ==
    (0 .. MaxOffset)
    \cup {2 ^ 27 - 1 - k : k \in 0 .. MaxOffset}
    \cup {2 ^ 27 + k : k \in 0 .. MaxOffset}
    \cup {2 ^ 28 - 1 - k : k \in 0 .. MaxOffset}

\* the reference with bits 4..31 = o and bits 0..3 = low
RefOf(o, low) == Or32(Shl32(U32(o), 4), U32(low))

RefIds == {RefOf(o, low) : o \in OffsetSamples, low \in 0 .. 15}

Vec3(x, y, z) == <<F(x), F(y), F(z), F(0)>>

Box(lo, hi) == [lower |-> Vec3(lo[1], lo[2], lo[3]),
                upper |-> Vec3(hi[1], hi[2], hi[3])]

\* boxes with lower <= upper, an x-point and a point among them
NodeBoxes ==
    {Box(<<k, 0 - k, 0>>, <<k + (k % 2), 0, k \div 2>>) : k \in 1 .. MaxBox}

NodeRefs == {U32(64 * k) : k \in 1 .. MaxBox} \cup {emptyNode, RefOf(1, 8 + 7)}

\* boxes of the nodes that are quantized: x from a to b, y from 0 to 1,
\* z from zl to 1 (a point on the z axis when zl = 1)
QBoxes ==
    {Box(<<p[1], 0, zl>>, <<p[2], 1, 1>>) :
        p \in {pp \in (-1 .. MaxCoord) \X (-1 .. MaxCoord) : pp[1] <= pp[2]},
        zl \in 0 .. 1}

\* what a builder puts in a child slot: a box and a reference, or setInvalid
QChoices == {[valid |-> TRUE, box |-> b] : b \in QBoxes}
            \cup {[valid |-> FALSE, box |-> Box(<<0, 0, 0>>, <<0, 0, 0>>)]}

QChoicesLast == {[valid |-> TRUE, box |-> Box(<<1, 0, 0>>, <<2, 1, 1>>)],
                 [valid |-> FALSE, box |-> Box(<<0, 0, 0>>, <<0, 0, 0>>)]}

\* the reference of the valid child in slot i: internal in the even slots,
\* a leaf in the odd ones
ChildRefFor(i) == IF i % 2 = 0 THEN U32(64 * (i + 1)) ELSE RefOf(i, 8 + i)

PutChild(n, i, c) ==
    IF c.valid THEN Node_child_assign(Node_setBounds(n, i, c.box), i, ChildRefFor(i))
    ELSE Node_setInvalid(n, i)

BuildNode(c0, c1, c2, c3) ==
    PutChild(PutChild(PutChild(PutChild(FillNode(0), 0, c0), 1, c1), 2, c2), 3, c3)

QNodes == {BuildNode(c0, c1, c2, c3) :
              c0 \in QChoices, c1 \in QChoices,
              c2 \in QChoicesLast, c3 \in QChoicesLast}

\* the bytes a NaN may convert to
NaNBytes == {0, 255}

QUndef == [w \in QWords |-> UndefWord]

\* a 16-lane float vector: the vertex v scaled by g+1 in group g, w = 1
VertexLanes(v) ==
    [l \in Lanes |-> IF l % 4 = 3 THEN F(1)
                     ELSE F(v[(l % 4) + 1] * ((l \div 4) + 1))]

\* a 16-lane int vector: n + 16*g in group g
IntLanes(n) == [l \in Lanes |-> U32(n + 16 * (l \div 4))]

Coords == 0 .. MaxV

TriInputs ==
    {[v0 |-> VertexLanes(<<a[1], a[2], a[3]>>),
      v1 |-> VertexLanes(<<b, 0, 1>>),
      v2 |-> VertexLanes(<<0, c, c>>),
      geomID |-> IntLanes(g), primID |-> IntLanes(p + 2),
      mask |-> [l \in Lanes |-> IF m = 0 THEN <<65535, 65535>> ELSE U32(1)]] :
        a \in Coords \X Coords \X Coords, b \in Coords, c \in Coords,
        g \in Coords, p \in Coords, m \in 0 .. 1}

TriUndef == Splat(UndefWord)

-----------------------------------------------------------------------------
(* the root reference: BVH4i() and the assignment of a NodeRef(id)          *)

\* the value of the variables a specification does not use
Idle == <<>>

NodeRef(id) ==
    /\ ref' = id
    /\ UNCHANGED <<node, nops, qnode, triArgs, triOut>>

\* BVH4i(): root(emptyNode)
InitRef ==
    /\ ref = emptyNode
    /\ node = Idle
    /\ nops = Idle
    /\ qnode = Idle
    /\ triArgs = Idle
    /\ triOut = Idle

NextRef == \E id \in RefIds : NodeRef(id)

SpecRef == InitRef /\ [][NextRef]_vars

-----------------------------------------------------------------------------
(* the uncompressed node: setBounds, setInvalid, child(i) = r              *)

setBounds(i, b) ==
    /\ nops < MaxOps
    /\ node' = Node_setBounds(node, i, b)
    /\ nops' = nops + 1
    /\ UNCHANGED <<ref, qnode, triArgs, triOut>>

setInvalid(i) ==
    /\ nops < MaxOps
    /\ node' = Node_setInvalid(node, i)
    /\ nops' = nops + 1
    /\ UNCHANGED <<ref, qnode, triArgs, triOut>>

child_assign(i, r) ==
    /\ nops < MaxOps
    /\ node' = Node_child_assign(node, i, r)
    /\ nops' = nops + 1
    /\ UNCHANGED <<ref, qnode, triArgs, triOut>>

Init ==
    /\ ref = Idle
    /\ node \in {FillNode(0), FillNode(1)}
    /\ nops = 0
    /\ qnode = Idle
    /\ triArgs = Idle
    /\ triOut = Idle

Next ==
    \/ \E i \in Slots, b \in NodeBoxes : setBounds(i, b)
    \/ \E i \in Slots : setInvalid(i)
    \/ \E i \in Slots, r \in NodeRefs : child_assign(i, r)

Spec == Init /\ [][Next]_vars

-----------------------------------------------------------------------------
(* the quantized node: init(node)                                          *)

init(nanByte) ==
    /\ qnode' = QuantizedNode_init(qnode, node, nanByte)
    /\ UNCHANGED <<ref, node, nops, triArgs, triOut>>

InitQ ==
    /\ ref = Idle
    /\ node \in QNodes
    /\ nops = Idle
    /\ qnode = QUndef
    /\ triArgs = Idle
    /\ triOut = Idle

NextQ == \E nanByte \in NaNBytes : init(nanByte)

SpecQ == InitQ /\ [][NextQ]_vars

-----------------------------------------------------------------------------
(* the triangle leaf record                                                *)

call_initTriangle1 ==
    /\ triOut' = initTriangle1(triArgs)
    /\ UNCHANGED <<ref, node, nops, qnode, triArgs>>

InitTri ==
    /\ ref = Idle
    /\ node = Idle
    /\ nops = Idle
    /\ qnode = Idle
    /\ triArgs \in TriInputs
    /\ triOut = TriUndef

NextTri == call_initTriangle1

SpecTri == InitTri /\ [][NextTri]_vars

-----------------------------------------------------------------------------
(* properties of the node reference (SpecRef)                              *)

\* bit 3 of a 32-bit value, by arithmetic
Bit3(v) == (v[2] \div 8) % 2 = 1

\* (offset << 4) | leaf_mask | count
LeafId(o, c) == Or32(Or32(Shl32(U32(o), 4), leaf_mask), U32(c))

AllOnes == <<65535, 65535>>

\* C1: for every 32-bit value exactly one of isLeaf() and isNode() holds,
\* isLeaf() is non-zero iff bit 3 is set and isNode() iff it is clear;
\* emptyNode is 8, a leaf with items() = 0 and offsetIndex() = 0;
\* invalidNode is 0xFFFFFFFF, a leaf.
C1_Discrimination ==
    /\ (isLeaf(ref) # U32(0)) # isNode(ref)
    /\ (isLeaf(ref) # U32(0)) <=> Bit3(ref)
    /\ isNode(ref) <=> ~Bit3(ref)
    /\ emptyNode = U32(8)
    /\ ref = U32(8) =>
          /\ isLeaf(ref) # U32(0)
          /\ items(ref) = U32(0)
          /\ offsetIndex(ref) = U32(0)
    /\ invalidNode = AllOnes
    /\ ref = AllOnes => isLeaf(ref) # U32(0)

C1_Witness == ref = invalidNode /\ isLeaf(ref) = U32(8) /\ ~isNode(ref)

\* C3: for every offset in 0..2^28-1 and count in 0..7 the reference
\* (offset << 4) | leaf_mask | count is a leaf with items() = count,
\* offsetIndex() = offset and offset() = offset << 4; items() is in 0..7
\* for every 32-bit id.
C3_LeafRoundTrip ==
    /\ \A o \in OffsetSamples, c \in 0 .. 7 :
          ref = LeafId(o, c) =>
             /\ isLeaf(ref) # U32(0)
             /\ items(ref) = U32(c)
             /\ offsetIndex(ref) = U32(o)
             /\ offset(ref) = Shl32(U32(o), 4)
    /\ items(ref)[1] = 0
    /\ items(ref)[2] \in 0 .. 7

C3_Witness == ref = LeafId(2 ^ 28 - 2, 7) /\ items(ref) = U32(7)

\* the four interpretations of a reference
IsInternal(v) == isNode(v)

IsEmpty(v) == v = emptyNode

IsInvalid(v) == v = invalidNode

IsLeafDescriptor(v) == isLeaf(v) # U32(0) /\ ~IsEmpty(v) /\ ~IsInvalid(v)

ExactlyOneInterpretation(v) ==
    Cardinality({j \in 1 .. 4 :
        <<IsInternal(v), IsLeafDescriptor(v), IsEmpty(v), IsInvalid(v)>>[j]}) = 1

\* C5 as stated: the four interpretations partition the 32-bit values, and
\* no populated leaf descriptor (offset in 0..2^28-1, count in 1..7) and no
\* internal reference has the bit pattern of invalidNode or emptyNode.
C5_Original ==
    /\ ExactlyOneInterpretation(ref)
    /\ IsEmpty(ref) \/ IsInvalid(ref) => isLeaf(ref) # U32(0)
    /\ \A o \in OffsetSamples, c \in 1 .. 7 :
          ref = LeafId(o, c) => ref # invalidNode /\ ref # emptyNode
    /\ isNode(ref) => ref # invalidNode /\ ref # emptyNode

\* C5 amended: as C5, except that the populated leaf descriptor with
\* offset 2^28-1 and count 7, and only that one, has the bit pattern of
\* invalidNode.
C5_Amended ==
    /\ ExactlyOneInterpretation(ref)
    /\ IsEmpty(ref) \/ IsInvalid(ref) => isLeaf(ref) # U32(0)
    /\ \A o \in OffsetSamples, c \in 1 .. 7 :
          ref = LeafId(o, c) =>
             /\ ref # emptyNode
             /\ ref = invalidNode <=> (o = 2 ^ 28 - 1 /\ c = 7)
    /\ isNode(ref) => ref # invalidNode /\ ref # emptyNode

C5_Witness == ref = LeafId(2 ^ 28 - 1, 7) /\ IsInvalid(ref)

\* floor(v / 64) on the mathematical value of v
Floor64(v) == Div32(v, 64)

\* C7 as stated: for every internal reference v, nodeID() = floor(v*2/128)
\* = floor(v/64) with v*2 a mathematical integer; the reference 40 is a
\* node, not a leaf, with nodeID() = 0.
C7_Original ==
    /\ isNode(ref) => nodeID(ref) = Floor64(ref)
    /\ ref = U32(40) =>
          isNode(ref) /\ isLeaf(ref) = U32(0) /\ nodeID(ref) = U32(0)

\* C7 amended: v*2 is an unsigned 32-bit product: for an internal v below
\* 2^31 nodeID() = floor(v/64), for an internal v from 2^31 on nodeID() =
\* floor((v - 2^31)/64); the reference 40 has bit 3 set, so it is a leaf
\* (isLeaf() = 8, isNode() false), and its nodeID() is 0.
C7_Amended ==
    /\ isNode(ref) /\ ref[1] < 2 ^ 15 => nodeID(ref) = Floor64(ref)
    /\ isNode(ref) /\ ref[1] >= 2 ^ 15 =>
          nodeID(ref) = Floor64(<<ref[1] - 2 ^ 15, ref[2]>>)
    /\ ref = U32(40) =>
          ~isNode(ref) /\ isLeaf(ref) = U32(8) /\ nodeID(ref) = U32(0)

C7_Witness ==
    /\ isNode(ref)
    /\ ref[1] >= 2 ^ 15
    /\ nodeID(ref) # Floor64(ref)
    /\ nodeID(ref) # U32(0)

-----------------------------------------------------------------------------
(* properties of the uncompressed node (Spec)                              *)

XYZ(v) == <<v[1], v[2], v[3]>>

\* C4: a step setBounds(i, B) leaves bounds(i) with the x,y,z of B and does
\* not alter child(i); a step child(i) = R leaves child(i) = R and does not
\* alter the stored bounds of slot i.  So after setBounds(i, B) followed by
\* child(i) = R, bounds(i) is B and child(i) is R.
C4_RoundTrip ==
    [][\A i \in Slots :
          /\ \A b \in NodeBoxes :
                setBounds(i, b) =>
                   /\ XYZ(Node_bounds(node', i).lower) = XYZ(b.lower)
                   /\ XYZ(Node_bounds(node', i).upper) = XYZ(b.upper)
                   /\ Node_child(node', i) = Node_child(node, i)
          /\ \A r \in NodeRefs :
                child_assign(i, r) =>
                   /\ Node_child(node', i) = r
                   /\ Node_bounds(node', i).upper = Node_bounds(node, i).upper
                   /\ XYZ(Node_bounds(node', i).lower)
                         = XYZ(Node_bounds(node, i).lower)]_vars

C4_Witness ==
    \E i \in Slots, b \in NodeBoxes, r \in NodeRefs :
        /\ nops >= 2
        /\ XYZ(Node_bounds(node, i).lower) = XYZ(b.lower)
        /\ XYZ(Node_bounds(node, i).upper) = XYZ(b.upper)
        /\ XYZ(b.lower) # XYZ(b.upper)
        /\ Node_child(node, i) = r

InvalidLower(c) == [x |-> pos_inf, y |-> pos_inf, z |-> pos_inf, child |-> c]

InvalidUpper(c) == [x |-> neg_inf, y |-> neg_inf, z |-> neg_inf, child |-> c]

\* C6 as stated: after setInvalid(i) slot i holds lower = +inf, upper =
\* -inf, lower[i].child = invalidNode and upper[i].child = emptyNode, and
\* every other slot is unchanged.
C6_Original ==
    [][\A i \in Slots :
          setInvalid(i) =>
             /\ node'.lower[i] = InvalidLower(invalidNode)
             /\ node'.upper[i] = InvalidUpper(emptyNode)
             /\ \A j \in Slots \ {i} :
                   node'.lower[j] = node.lower[j] /\ node'.upper[j] = node.upper[j]]_vars

\* C6 amended: as C6, with upper[i].child = NodeRef(0), the value 0, in
\* place of emptyNode.
C6_Amended ==
    [][\A i \in Slots :
          setInvalid(i) =>
             /\ node'.lower[i] = InvalidLower(invalidNode)
             /\ node'.upper[i] = InvalidUpper(U32(0))
             /\ node'.upper[i].child # emptyNode
             /\ \A j \in Slots \ {i} :
                   node'.lower[j] = node.lower[j] /\ node'.upper[j] = node.upper[j]]_vars

C6_Witness ==
    /\ node.lower[0] = InvalidLower(invalidNode)
    /\ node.upper[0] = InvalidUpper(U32(0))
    /\ node.upper[1].child = AllOnes
    /\ Node_child(node, 1) = emptyNode

-----------------------------------------------------------------------------
(* properties of the quantized node (SpecQ)                                *)

\* init(node) has run
QDone == qnode # QUndef

Axes == 1 .. 3

\* C2: after init(N), for every child i and axis, the decompressed lower
\* bound is <= the lower bound of N.bounds(i) and the decompressed upper
\* bound is >= its upper bound; nodes with an axis of extent 0 and nodes
\* with invalid children included.
C2_Conservative ==
    QDone =>
       \A i \in Slots, a \in Axes :
          /\ FLe(QuantizedNode_bounds(qnode, i).lower[a], Node_bounds(node, i).lower[a])
          /\ FLe(Node_bounds(node, i).upper[a], QuantizedNode_bounds(qnode, i).upper[a])

\* the children that are not the invalid sentinel
ValidSlots(n) == {i \in Slots : n.lower[i].child # invalidNode}

MinOf(S) == CHOOSE m \in S : \A y \in S : FLe(m, y)

MaxOf(S) == CHOOSE m \in S : \A y \in S : FLe(y, m)

\* the node of the spec's scenario
ExampleNode ==
    BuildNode([valid |-> TRUE, box |-> Box(<<0, 0, 0>>, <<1, 1, 1>>)],
              [valid |-> TRUE, box |-> Box(<<2, 0, 0>>, <<3, 1, 1>>)],
              [valid |-> FALSE, box |-> Box(<<0, 0, 0>>, <<0, 0, 0>>)],
              [valid |-> FALSE, box |-> Box(<<0, 0, 0>>, <<0, 0, 0>>)])

\* C8: for a node with at least one valid child, init stores start = the
\* componentwise minimum of the valid children's lower corners and diff =
\* (the componentwise maximum of their upper corners - start) / 255; for
\* the children (0,0,0)-(1,1,1), (2,0,0)-(3,1,1), invalid, invalid that is
\* start = (0,0,0) and diff = (3/255, 1/255, 1/255).
C8_StartDiff ==
    QDone /\ ValidSlots(node) # {} =>
       /\ \A a \in Axes :
             LET lo == MinOf({Node_bounds(node, i).lower[a] : i \in ValidSlots(node)})
                 hi == MaxOf({Node_bounds(node, i).upper[a] : i \in ValidSlots(node)})
             IN  /\ qnode[off_start + a - 1] = lo
                 /\ qnode[off_diff + a - 1] = FDiv(FSub(hi, lo), F(255))
       /\ node = ExampleNode =>
             /\ <<qnode[off_start], qnode[off_start + 1], qnode[off_start + 2]>>
                   = <<F(0), F(0), F(0)>>
             /\ <<qnode[off_diff], qnode[off_diff + 1], qnode[off_diff + 2]>>
                   = <<Fin(3, 255), Fin(1, 255), Fin(1, 255)>>

C8_Witness ==
    /\ QDone
    /\ node = ExampleNode
    /\ ValidSlots(node) = {0, 1}
    /\ qnode[off_diff] = Fin(1, 85)

\* the words of start, diff, lower and upper
FieldWords ==
    (off_start .. off_start + 2) \cup (off_diff .. off_diff + 2)
    \cup (off_lower .. off_lower + 2) \cup (off_upper .. off_upper + 2)

ChildOff(i) == <<off_child0, off_child1, off_child2, off_child3>>[i + 1]

\* C9: after init(node), child(i) of the quantized node is node.child(i)
\* for every i; the record is 16 words, word 3+4*i is the field child_i
\* (words 3, 7, 11, 15) and is none of the words of start, diff, lower,
\* upper (words 0-2, 4-6, 8-10, 12-14).
C9_Children ==
    QDone =>
       /\ \A i \in Slots :
             /\ QuantizedNode_child(qnode, i) = Node_child(node, i)
             /\ 3 + 4 * i = ChildOff(i)
             /\ 3 + 4 * i \notin FieldWords
       /\ FieldWords = {0, 1, 2, 4, 5, 6, 8, 9, 10, 12, 13, 14}
       /\ DOMAIN qnode = 0 .. 15
       /\ off_child3 = 15

C9_Witness ==
    /\ QDone
    /\ ValidSlots(node) = {0, 1, 3}
    /\ QuantizedNode_child(qnode, 0) = U32(64)
    /\ QuantizedNode_child(qnode, 1) = RefOf(1, 9)
    /\ QuantizedNode_child(qnode, 2) = invalidNode
    /\ QuantizedNode_child(qnode, 3) = RefOf(3, 11)

-----------------------------------------------------------------------------
(* properties of the triangle leaf record (SpecTri)                        *)

TriDone == triOut # TriUndef

Groups == 0 .. 3

\* cross(v0 - v1, v2 - v0) of group g, from the components
NormalOf(t, g) ==
    LET e1 == [c \in 0 .. 2 |-> FSub(t.v0[4 * g + c], t.v1[4 * g + c])]
        e2 == [c \in 0 .. 2 |-> FSub(t.v2[4 * g + c], t.v0[4 * g + c])]
    IN  <<FSub(FMul(e1[1], e2[2]), FMul(e1[2], e2[1])),
          FSub(FMul(e1[2], e2[0]), FMul(e1[0], e2[2])),
          FSub(FMul(e1[0], e2[1]), FMul(e1[1], e2[0]))>>

Group(v, g) == <<v[4 * g], v[4 * g + 1], v[4 * g + 2], v[4 * g + 3]>>

\* the x,y,z of group g of v with w in the 4th lane
WithW(v, g, w) == <<v[4 * g], v[4 * g + 1], v[4 * g + 2], w>>

TriFirstThree(t, g) ==
    /\ Group(tri_v0(t), g) = WithW(t.v0, g, Raw(t.primID[4 * g + 3]))
    /\ Group(tri_v1(t), g) = WithW(t.v1, g, Raw(t.geomID[4 * g + 3]))
    /\ Group(tri_v2(t), g) = WithW(t.v2, g, Raw(t.mask[4 * g + 3]))

\* C10 as stated: in each 4-lane group _v0 = (v0.xyz, primID), _v1 =
\* (v1.xyz, geomID), _v2 = (v2.xyz, mask), and _v3 has zeros in its first
\* three lanes and the normal cross(v0 - v1, v2 - v0) in its 4th lane.
C10_Original ==
    TriDone =>
       \A g \in Groups :
          /\ TriFirstThree(triArgs, g)
          /\ tri_v3(triArgs)[4 * g] = F(0)
          /\ tri_v3(triArgs)[4 * g + 1] = F(0)
          /\ tri_v3(triArgs)[4 * g + 2] = F(0)
          /\ tri_v3(triArgs)[4 * g + 3] = tri_normal(triArgs)[4 * g + 3]

\* C10 amended: _v0, _v1, _v2 as stated; _v3 has the normal
\* cross(v0 - v1, v2 - v0) in its first three lanes and zero in its 4th.
C10_Amended ==
    TriDone =>
       \A g \in Groups :
          /\ TriFirstThree(triArgs, g)
          /\ Group(tri_v3(triArgs), g)
                = <<NormalOf(triArgs, g)[1], NormalOf(triArgs, g)[2],
                    NormalOf(triArgs, g)[3], F(0)>>
          /\ Group(triOut, g) = Group(<<tri_v0(triArgs), tri_v1(triArgs),
                                        tri_v2(triArgs), tri_v3(triArgs)>>[g + 1], 0)

C10_Witness ==
    /\ TriDone
    /\ \A c \in 1 .. 3 : NormalOf(triArgs, 0)[c] # F(0)
    /\ triOut[3] # triOut[7]
    /\ triOut[15] = F(0)

=============================================================================
